---- MODULE Spec2Model ----
(***************************************************************************)
(* Image ingestion, thumbnail cache, catalog and request handlers of       *)
(* rust_image_random (src/src/utils.rs, src/src/handler.rs, main() of      *)
(* src/src/main.rs).                                                       *)
(*                                                                         *)
(* The file system below the image folder is a function from paths to      *)
(* file bodies.  A path is <<dir, name>>: dir is the sequence of directory *)
(* names below the image folder, name is <<stem, extension>>.  A body is   *)
(* a pair of chunks (a buffered writer flushes an encoded image in more    *)
(* than one write), each chunk tagged with the image it encodes.           *)
(***************************************************************************)
EXTENDS Integers, Sequences, FiniteSets, TLC

\* ------------------------------------------------------------- bounds
MaxFiles == 2        \* files in the tree the ingestion run starts from
MaxSeedFiles == 1    \* files in the tree of a run that receives uploads
MaxUploads == 2      \* upload requests in flight during one run
MaxImg == 2          \* distinct decodable payloads an upload can carry
MaxDim == 9          \* width and height of an image create_thumbnail is given
MaxBound == 9        \* max_width and max_height create_thumbnail is given

\* ------------------------------------------------------------- paths
ROOT == <<>>
PC == <<"pc">>
MP == <<"mp">>
TH == <<"thumbnails">>
PCSUB == <<"pc", "sub">>
THPC == <<"thumbnails", "pc">>
\* a directory validate_folder does not ask for
EXTRA == <<"other">>
Dirs == {ROOT, PC, MP, TH, PCSUB, THPC, EXTRA}

\* hex MD5 digest of an uploaded file name (Md5::new / update / finalize,
\* format!("{:x}")), tabulated for the names the model uploads
OrigNames == {"a.png", "b.png"}
Md5Hex(n) ==
  CASE n = "a.png" -> "32d3ca5e23f4ccf1e4c8660c40e75f33"
    [] n = "b.png" -> "0a7b8575f81e6d28645879810e6f43a9"

Stems == {"a", "b"} \cup {Md5Hex(n) : n \in OrigNames}
Exts == {"jpg", "png", "webp"}
Names == Stems \X Exts
Paths == Dirs \X Names

DirOf(p) == p[1]
NameOf(p) == p[2]
ExtOf(p) == p[2][2]
Last(s) == s[Len(s)]
\* the parent of a directory
Rest1(s) == SubSeq(s, 1, Len(s) - 1)
IsPrefix(s, t) == Len(s) <= Len(t) /\ SubSeq(t, 1, Len(s)) = s
\* the path lies in the thumbnails subtree of the image folder
UnderThumbnails(p) == IsPrefix(TH, DirOf(p))
\* the path lies in a category subtree of the image folder
UnderCategory(p) == IsPrefix(PC, DirOf(p)) \/ IsPrefix(MP, DirOf(p))

\* ------------------------------------------------------------- bodies
Absent == <<>>
Empty == 0
Corrupt == -1
ThumbBase == 100
Whole(t) == <<t, t>>
\* image::open / ImageReader::decode: the image a body encodes, 0 on error
Decode(body) ==
  IF body # Absent /\ body[1] = body[2] /\ body[1] > 0 THEN body[1] ELSE 0
\* DynamicImage::resize: the thumbnail of an image
Resize(img) == IF img > ThumbBase THEN img ELSE ThumbBase + img

VARIABLES
  fs,          \* the files below the image folder
  fs0,         \* the files the run started from
  phase,       \* main(): "convert", "thumbs", "index", then "serve"
  stack,       \* the walk in progress: one frame per read_dir being iterated
  cur,         \* convert: the source whose .webp is saved and not yet removed
  converted,   \* converted_count of convert_images_to_webp
  convFail,    \* "Failed to open/convert" lines of convert_images_to_webp
  thumbCount,  \* thumbnail_count of create_thumbnails
  thumbFail,   \* "Failed to create thumbnail" lines of create_thumbnails
  thumbSkip,   \* files create_thumbnails passed over at its own exists check
  ct,          \* the last call of create_thumbnail
  catalog,     \* the vectors index_images returned: [pc, mp]
  resp,        \* the response to the last get_image, get_list, list_images or
               \* get_thumbnail request
  up,          \* the upload_image requests: where each is and what it carries
  lastw,       \* per path, the upload request that wrote to it last
  dirs,        \* the directories that exist: the image folder (ROOT) and below
  vres,        \* what validate_folder returned to main()
  dim,         \* a call of create_thumbnail's dimension arithmetic
  flat         \* the vector index_images of main.rs returned

NoCall == [path |-> <<ROOT, <<"", "">>>>, existed |-> FALSE, decoded |-> FALSE,
           srcOk |-> FALSE, ok |-> FALSE, wrote |-> FALSE]
NoPath == <<ROOT, <<"", "">>>>

\* ------------------------------------------------------------- walks
FileEntry(p) == [k |-> "file", d |-> DirOf(p), n |-> NameOf(p)]
DirEntry(d) == [k |-> "dir", d |-> d, n |-> <<"", "">>]
Children(d) == {e \in dirs : Len(e) = Len(d) + 1 /\ IsPrefix(d, e)}
\* fs::read_dir(folder_path): the entries of a directory
ReadDir(d) ==
  {FileEntry(p) : p \in {q \in Paths : DirOf(q) = d /\ fs[q] # Absent}}
    \cup {DirEntry(c) : c \in Children(d)}
Frame(d) == [dir |-> d, todo |-> ReadDir(d)]
Top == stack[Len(stack)]
Rest == SubSeq(stack, 1, Len(stack) - 1)
Visited(e) == Append(Rest, [Top EXCEPT !.todo = @ \ {e}])

vars == <<fs, fs0, phase, stack, cur, converted, convFail, thumbCount,
          thumbFail, thumbSkip, ct, catalog, resp, up, lastw, dirs, vres,
          dim, flat>>

\* ------------------------------------------------------------- convert_images_to_webp
SrcExts == {"jpg", "png", "jpeg"}
\* path.with_extension("webp")
WithExtension(p, ext) == <<DirOf(p), <<NameOf(p)[1], ext>>>>
\* the walk after a file failed to open or to convert: the error is printed
\* and the for loop goes on with the next entry
ConvertFailed(stk) == stk

ConvertVisit ==
  /\ phase = "convert" /\ cur = NoPath /\ stack # <<>>
  /\ \E e \in Top.todo :
       LET p == <<e.d, e.n>> IN
       \/ /\ e.k = "dir"
          /\ stack' = Append(Visited(e), Frame(e.d))
          /\ UNCHANGED <<fs, cur, convFail>>
       \/ /\ e.k = "file" /\ e.n[2] \notin SrcExts
          /\ stack' = Visited(e)
          /\ UNCHANGED <<fs, cur, convFail>>
       \/ /\ e.k = "file" /\ e.n[2] \in SrcExts /\ Decode(fs[p]) = 0
          /\ convFail' = convFail + 1
          /\ stack' = ConvertFailed(Visited(e))
          /\ UNCHANGED <<fs, cur>>
       \/ /\ e.k = "file" /\ e.n[2] \in SrcExts /\ Decode(fs[p]) # 0
          /\ fs' = [fs EXCEPT ![WithExtension(p, "webp")] = Whole(Decode(fs[p]))]
          /\ cur' = p
          /\ stack' = Visited(e)
          /\ UNCHANGED convFail
  /\ UNCHANGED <<fs0, phase, converted, thumbCount, thumbFail, thumbSkip, ct, catalog, resp, up, lastw, dirs, vres, dim, flat>>

\* (variant: a source file is removed before it is re-encoded)
ConvertRemoveEarly ==
  /\ phase = "convert" /\ cur = NoPath
  /\ \E p \in Paths :
       /\ fs[p] # Absent /\ ExtOf(p) \in SrcExts
       /\ fs' = [fs EXCEPT ![p] = Absent]
  /\ converted' = converted + 1
  /\ UNCHANGED <<fs0, phase, stack, cur, convFail, thumbCount, thumbFail, thumbSkip,
                 ct, catalog, resp, up, lastw, dirs, vres, dim, flat>>

\* fs::remove_file(&path) and converted_count += 1, after the save succeeded
ConvertRemove ==
  /\ phase = "convert" /\ cur # NoPath
  /\ fs' = [fs EXCEPT ![cur] = Absent]
  /\ converted' = converted + 1
  /\ cur' = NoPath
  /\ UNCHANGED <<fs0, phase, stack, convFail, thumbCount, thumbFail, thumbSkip, ct, catalog, resp, up, lastw, dirs, vres, dim, flat>>

\* the for loop of one directory is over: return to the caller; main() goes
\* on to create_thumbnails(&config.image_folder, ...)
ConvertReturn ==
  /\ phase = "convert" /\ cur = NoPath /\ stack # <<>> /\ Top.todo = {}
  /\ IF Len(stack) = 1
       THEN phase' = "thumbs" /\ stack' = <<Frame(ROOT)>>
       ELSE phase' = phase /\ stack' = Rest
  /\ UNCHANGED <<fs, fs0, cur, converted, convFail, thumbCount, thumbFail, thumbSkip,
                 ct, catalog, resp, up, lastw, dirs, vres, dim, flat>>

\* ------------------------------------------------------------- thumbnail dimensions
\* f64::from(max_width) / ratio as u32, ratio the f64 nearest to w / h: the
\* quotient max_width * h / w truncated, except where the rounding of ratio
\* leaves an exact quotient just below its integer: for widths, heights and
\* bounds up to 12 that is 9.0 / (9.0 / 7.0) = 6.999999999999999 alone
DivByRatio(m, w, h) == IF <<m, w, h>> = <<9, 9, 7>> THEN 6 ELSE (m * h) \div w
\* f64::from(max_height) * ratio as u32: for widths, heights and bounds up
\* to 12 the product max_height * w / h truncated
MulByRatio(m, w, h) == (m * w) \div h
\* (new_width, new_height) of create_thumbnail for an image of w x h;
\* ratio > 1.0 exactly when w > h
NewDimensions(w, h, max_width, max_height) ==
  IF w > h THEN <<max_width, DivByRatio(max_width, w, h)>>
  ELSE <<MulByRatio(max_height, w, h), max_height>>

NoDim == [pc |-> "none", w |-> 0, h |-> 0, max_width |-> 0, max_height |-> 0,
          new_width |-> 0, new_height |-> 0]
\* create_thumbnail from img.dimensions() to the arguments of img.resize
ThumbnailDimensions ==
  /\ phase = "unit" /\ dim.pc = "opened"
  /\ LET n == NewDimensions(dim.w, dim.h, dim.max_width, dim.max_height) IN
       dim' = [dim EXCEPT !.pc = "resize", !.new_width = n[1], !.new_height = n[2]]
  /\ UNCHANGED <<fs, fs0, phase, stack, cur, converted, convFail, thumbCount,
                 thumbFail, thumbSkip, ct, catalog, resp, up, lastw, dirs, vres,
                 flat>>

\* ------------------------------------------------------------- create_thumbnail
ThumbPath(p) == <<TH, NameOf(p)>>
\* create_thumbnail(image_path, 200, 200, image_folder) on the files `files`:
\* the result, the files afterwards and what the call did.  image::open(
\* image_path)? comes first, the exists check of the thumbnail after it
CreateThumbnail(p, files) ==
  LET img == Decode(files[p])
      existed == files[ThumbPath(p)] # Absent
      call == [path |-> p, existed |-> existed, srcOk |-> img # 0,
               decoded |-> TRUE, ok |-> TRUE, wrote |-> FALSE]
  IN  IF img = 0
        THEN [files |-> files, call |-> [call EXCEPT !.ok = FALSE]]
      ELSE IF existed
        THEN [files |-> files, call |-> call]
      ELSE [files |-> [files EXCEPT ![ThumbPath(p)] = Whole(Resize(img))],
            call |-> [call EXCEPT !.wrote = TRUE]]

\* ------------------------------------------------------------- create_thumbnails
\* folder_path.ends_with("thumbnails")
EndsWithThumbnails(d) == d # ROOT /\ Last(d) = "thumbnails"
\* path.replace(&current_folder, "thumbnails") exists; below the image folder
\* itself current_folder is the folder's own name and the result lies outside
PreCheckExists(p) ==
  /\ DirOf(p) # ROOT
  /\ LET d == DirOf(p)
         r == [i \in 1..Len(d) |-> IF d[i] = Last(d) THEN "thumbnails" ELSE d[i]]
     IN  r \in Dirs /\ fs[<<r, NameOf(p)>>] # Absent
\* (variant: the error ends the whole walk)
AbortWalk(stk) == <<[dir |-> ROOT, todo |-> {}]>>
\* the walk after create_thumbnail returned an error
ThumbFailed(stk) == stk

ThumbsVisit ==
  /\ phase = "thumbs" /\ stack # <<>>
  /\ \E e \in Top.todo :
       LET p == <<e.d, e.n>>
           r == CreateThumbnail(p, fs)
       IN
       \/ /\ e.k = "dir" /\ EndsWithThumbnails(e.d)
          /\ stack' = Visited(e)
          /\ UNCHANGED <<fs, thumbCount, thumbFail, thumbSkip, ct>>
       \/ /\ e.k = "dir" /\ ~EndsWithThumbnails(e.d)
          /\ stack' = Append(Visited(e), Frame(e.d))
          /\ UNCHANGED <<fs, thumbCount, thumbFail, thumbSkip, ct>>
       \/ /\ e.k = "file" /\ e.n[2] # "webp"
          /\ stack' = Visited(e)
          /\ UNCHANGED <<fs, thumbCount, thumbFail, thumbSkip, ct>>
       \/ /\ e.k = "file" /\ e.n[2] = "webp" /\ PreCheckExists(p)
          /\ thumbSkip' = thumbSkip + 1
          /\ stack' = Visited(e)
          /\ UNCHANGED <<fs, thumbCount, thumbFail, ct>>
       \/ /\ e.k = "file" /\ e.n[2] = "webp" /\ ~PreCheckExists(p) /\ r.call.ok
          /\ fs' = r.files /\ ct' = r.call
          /\ thumbCount' = thumbCount + 1
          /\ stack' = Visited(e)
          /\ UNCHANGED <<thumbFail, thumbSkip>>
       \/ /\ e.k = "file" /\ e.n[2] = "webp" /\ ~PreCheckExists(p) /\ ~r.call.ok
          /\ fs' = r.files /\ ct' = r.call
          /\ thumbFail' = thumbFail + 1
          /\ stack' = ThumbFailed(Visited(e))
          /\ UNCHANGED <<thumbCount, thumbSkip>>
  /\ UNCHANGED <<fs0, phase, cur, converted, convFail, catalog, resp, up, lastw, dirs, vres, dim, flat>>

ThumbsReturn ==
  /\ phase = "thumbs" /\ stack # <<>> /\ Top.todo = {}
  /\ IF Len(stack) = 1
       THEN phase' = "index" /\ stack' = <<>>
       ELSE phase' = phase /\ stack' = Rest
  /\ UNCHANGED <<fs, fs0, cur, converted, convFail, thumbCount, thumbFail, thumbSkip,
                 ct, catalog, resp, up, lastw, dirs, vres, dim, flat>>

\* ------------------------------------------------------------- index_images
\* the files index_images pushes to the vector of one category: .webp files
\* whose parent directory has the category's name
Indexed(cat, p) ==
  /\ fs[p] # Absent /\ ExtOf(p) = "webp"
  /\ DirOf(p) # ROOT /\ Last(DirOf(p)) = cat
CatFiles(cat) == {p \in Paths : Indexed(cat, p)}
\* the orders WalkDir can yield a set of files in: the files of one directory
\* come together (no directory of the model that holds indexed files lies
\* below another one), in any order
WalkOrders(S) ==
  {s \in [1..Cardinality(S) -> S] :
     /\ \A i, j \in DOMAIN s : i # j => s[i] # s[j]
     /\ \A i, j, k \in DOMAIN s :
          (i < j /\ j < k /\ DirOf(s[i]) = DirOf(s[k])) => DirOf(s[j]) = DirOf(s[i])}

IndexImages ==
  /\ phase = "index"
  /\ \E pcs \in WalkOrders(CatFiles("pc")), mps \in WalkOrders(CatFiles("mp")) :
       catalog' = <<pcs, mps>>
  /\ phase' = "serve"
  /\ UNCHANGED <<fs, fs0, stack, cur, converted, convFail, thumbCount, thumbFail,
                 thumbSkip, ct, resp, up, lastw, dirs, vres, dim, flat>>

\* ------------------------------------------------------------- request handlers
Exists(p) == p \in Paths /\ fs[p] # Absent
pc_images == catalog[1]
mp_images == catalog[2]
NoResp == [h |-> "none", arg |-> "", name |-> <<"", "">>, status |-> "none",
           path |-> NoPath, body |-> Absent, list |-> <<>>]
ReqNames == {<<"a", "webp">>, <<Md5Hex("a.png"), "webp">>,
             <<Md5Hex("b.png"), "webp">>, <<"nosuch", "webp">>}
ReqFolders == {"pc", "mp", "all", "p", "other"}
Frozen == <<fs, fs0, phase, stack, cur, converted, convFail, thumbCount, thumbFail,
            thumbSkip, ct, catalog, up, lastw, dirs, vres, dim, flat>>

\* .find(|&path| file_name(path) == filename) over pc_images chained with
\* mp_images: the first match, <<>> when there is none
FindByName(seq, n) ==
  LET hits == {i \in DOMAIN seq : NameOf(seq[i]) = n}
  IN  IF hits = {} THEN <<>>
      ELSE <<seq[CHOOSE i \in hits : \A j \in hits : i <= j]>>

\* File::open(path).unwrap() and read_to_end: the body, a panic when the file
\* is not there
ReadOrPanic(r, p) ==
  IF Exists(p) THEN [r EXCEPT !.status = "ok", !.path = p, !.body = fs[p]]
  ELSE [r EXCEPT !.status = "panic", !.path = p]

\* the response of get_image to GET /api/image/{filename}
GetImageResp(filename) ==
  LET r == [NoResp EXCEPT !.h = "get_image", !.name = filename]
      file_path == FindByName(pc_images \o mp_images, filename)
  IN  IF file_path # <<>> THEN ReadOrPanic(r, file_path[1])
      ELSE [r EXCEPT !.status = "not_found"]

get_image ==
  /\ phase = "serve"
  /\ \E filename \in ReqNames : resp' = GetImageResp(filename)
  /\ UNCHANGED Frozen

\* the filtered_images of get_list
FilteredList(subfolder) ==
  IF subfolder = "all" THEN [known |-> TRUE, imgs |-> pc_images \o mp_images]
  ELSE IF subfolder = "pc" THEN [known |-> TRUE, imgs |-> pc_images]
  ELSE IF subfolder = "mp" THEN [known |-> TRUE, imgs |-> mp_images]
  ELSE [known |-> FALSE, imgs |-> <<>>]

\* the response of get_list to GET /api/list/{subfolder}
GetListResp(subfolder) ==
  LET r == [NoResp EXCEPT !.h = "get_list", !.arg = subfolder]
      f == FilteredList(subfolder)
  IN  IF ~f.known \/ f.imgs = <<>> THEN [r EXCEPT !.status = "not_found"]
      ELSE [r EXCEPT !.status = "ok",
                     !.list = [i \in DOMAIN f.imgs |-> NameOf(f.imgs[i])]]

get_list ==
  /\ phase = "serve"
  /\ \E subfolder \in ReqFolders : resp' = GetListResp(subfolder)
  /\ UNCHANGED Frozen

\* the filtered_images of list_images
FilteredRandom(subfolder) ==
  IF subfolder = "pc" THEN [known |-> TRUE, imgs |-> pc_images]
  ELSE IF subfolder = "mp" THEN [known |-> TRUE, imgs |-> mp_images]
  ELSE IF subfolder = "all" THEN [known |-> TRUE, imgs |-> pc_images \o mp_images]
  ELSE [known |-> FALSE, imgs |-> <<>>]
\* (variant: the range includes its upper end)
RandomIndexInclusive(len) == 1..(len + 1)
\* rng.gen_range(0..filtered_images.len()), as positions 1..len
RandomIndex(len) == 1..len
\* filtered_images.get(random_index).unwrap(), then File::open(..).unwrap()
GetOrPanic(r, imgs, i) ==
  IF i \in DOMAIN imgs THEN ReadOrPanic(r, imgs[i]) ELSE [r EXCEPT !.status = "panic"]

\* the responses list_images can give to GET /api/images/{subfolder}
ListImagesResps(subfolder) ==
  LET r == [NoResp EXCEPT !.h = "list_images", !.arg = subfolder]
      f == FilteredRandom(subfolder)
  IN  IF ~f.known \/ f.imgs = <<>> THEN {[r EXCEPT !.status = "not_found"]}
      ELSE {GetOrPanic(r, f.imgs, random_index) :
              random_index \in RandomIndex(Len(f.imgs))}

list_images ==
  /\ phase = "serve"
  /\ \E subfolder \in ReqFolders : resp' \in ListImagesResps(subfolder)
  /\ UNCHANGED Frozen

\* the response of get_thumbnail to GET /api/thumbnail/{filename}
GetThumbnailResp(filename) ==
  ReadOrPanic([NoResp EXCEPT !.h = "get_thumbnail", !.name = filename],
              <<TH, filename>>)

get_thumbnail ==
  /\ phase = "serve"
  /\ \E filename \in ReqNames : resp' = GetThumbnailResp(filename)
  /\ UNCHANGED Frozen

\* ------------------------------------------------------------- main.rs
\* the crate root carries its own index_images and get_list, over one
\* vector of paths
\* str::contains on one component of a path, for the components and the
\* patterns of the model
ComponentContains(c, pat) ==
  \/ c = pat
  \/ pat = "p" /\ c \in {"pc", "mp", "webp", "jpg", "png"}
\* path.contains(pat), the path a string: no pattern of the model spans a
\* separator
PathContains(p, pat) ==
  \/ \E i \in DOMAIN DirOf(p) : ComponentContains(DirOf(p)[i], pat)
  \/ ComponentContains(NameOf(p)[1], pat)
  \/ ComponentContains(NameOf(p)[2], pat)
\* the files index_images of main.rs pushes
FlatFiles ==
  {p \in Paths : fs[p] # Absent /\ ExtOf(p) = "webp"
                   /\ ~PathContains(p, "thumbnails")}

main_index_images ==
  /\ phase = "index"
  /\ flat' \in WalkOrders(FlatFiles)
  /\ phase' = "serve_main"
  /\ UNCHANGED <<fs, fs0, stack, cur, converted, convFail, thumbCount, thumbFail,
                 thumbSkip, ct, catalog, resp, up, lastw, dirs, vres, dim>>

\* the filtered_images of get_list of main.rs
MainFilteredList(subfolder) ==
  IF subfolder = "all" THEN flat
  ELSE SelectSeq(flat, LAMBDA path : PathContains(path, subfolder))

\* the response of get_list of main.rs to GET /api/list/{subfolder}
MainGetListResp(subfolder) ==
  LET r == [NoResp EXCEPT !.h = "get_list", !.arg = subfolder]
      imgs == MainFilteredList(subfolder)
  IN  IF imgs = <<>> THEN [r EXCEPT !.status = "not_found"]
      ELSE [r EXCEPT !.status = "ok",
                     !.list = [i \in DOMAIN imgs |-> NameOf(imgs[i])]]

main_get_list ==
  /\ phase = "serve_main"
  /\ \E subfolder \in ReqFolders : resp' = MainGetListResp(subfolder)
  /\ UNCHANGED <<fs, fs0, phase, stack, cur, converted, convFail, thumbCount,
                 thumbFail, thumbSkip, ct, catalog, up, lastw, dirs, vres, dim,
                 flat>>

\* ------------------------------------------------------------- upload_image
Uploads == 1..MaxUploads
\* the {subfolder} of POST /api/images/{subfolder}: any path segment
UploadFolders == {"pc", "mp", "thumbnails", "other"}
Payloads == (1..MaxImg) \cup {Corrupt}
Idle == [pc |-> "idle", cat |-> "", name |-> "", img |-> 0, status |-> "none",
         solo |-> FALSE]
\* format!("{:x}.webp", hash_result)
NewFilename(name) == <<Md5Hex(name), "webp">>
\* format!("{}/{}", folder_path, new_filename), folder_path the image folder
\* joined with the subfolder of the request
NewFilepath(cat, name) == <<(<<cat>>), NewFilename(name)>>
Target(i) == NewFilepath(up[i].cat, up[i].name)
Quiet(i) == \A j \in Uploads \ {i} : up[j].pc \in {"idle", "done"}
Done(i, st) == [Idle EXCEPT !.pc = "done", !.status = st]

\* fs::create_dir_all(&folder_path)
CreateDirAll(d) == dirs \cup {SubSeq(d, 1, k) : k \in 0..Len(d)}

\* (variant: the folder of the request is created before the token check)
UploadStartCreatesDirFirst(i) ==
  /\ phase = "serve" /\ up[i].pc = "idle"
  /\ IF i = 1 THEN TRUE ELSE up[i - 1].pc # "idle"
  /\ \E auth \in BOOLEAN, cat \in UploadFolders, hasName \in BOOLEAN,
        name \in OrigNames, payload \in Payloads :
       /\ dirs' = CreateDirAll(<<cat>>)
       /\ \/ /\ ~auth
             /\ up' = [up EXCEPT ![i] = Done(i, "unauthorized")]
          \/ /\ auth /\ ~hasName
             /\ up' = [up EXCEPT ![i] = Done(i, "bad_request")]
          \/ /\ auth /\ hasName /\ Decode(Whole(payload)) = 0
             /\ up' = [up EXCEPT ![i] = Done(i, "panic")]
          \/ /\ auth /\ hasName /\ Decode(Whole(payload)) # 0
             /\ up' = [up EXCEPT ![i] = [pc |-> "create", cat |-> cat, name |-> name,
                                          img |-> Decode(Whole(payload)),
                                          status |-> "none", solo |-> Quiet(i)]]
  /\ UNCHANGED <<fs, fs0, phase, stack, cur, converted, convFail, thumbCount,
                 thumbFail, thumbSkip, ct, catalog, resp, lastw, vres, dim, flat>>

\* the request arrives: the token check, then the first field of the payload
\* up to the decoded image (requests are numbered in the order they arrive)
UploadStart(i) ==
  /\ phase = "serve" /\ up[i].pc = "idle"
  /\ IF i = 1 THEN TRUE ELSE up[i - 1].pc # "idle"
  /\ \E auth \in BOOLEAN, cat \in UploadFolders, hasName \in BOOLEAN,
        name \in OrigNames, payload \in Payloads :
       \/ /\ ~auth
          /\ up' = [up EXCEPT ![i] = Done(i, "unauthorized")]
          /\ UNCHANGED dirs
       \/ /\ auth /\ ~hasName
          /\ up' = [up EXCEPT ![i] = Done(i, "bad_request")]
          /\ UNCHANGED dirs
       \/ /\ auth /\ hasName /\ Decode(Whole(payload)) = 0
          /\ dirs' = CreateDirAll(<<cat>>)
          /\ up' = [up EXCEPT ![i] = Done(i, "panic")]
       \/ /\ auth /\ hasName /\ Decode(Whole(payload)) # 0
          /\ dirs' = CreateDirAll(<<cat>>)
          /\ up' = [up EXCEPT ![i] = [pc |-> "create", cat |-> cat, name |-> name,
                                       img |-> Decode(Whole(payload)),
                                       status |-> "none", solo |-> Quiet(i)]]
  /\ UNCHANGED <<fs, fs0, phase, stack, cur, converted, convFail, thumbCount,
                 thumbFail, thumbSkip, ct, catalog, resp, lastw, vres, dim, flat>>

\* img.save_with_format: File::create truncates the target
SaveCreate(i) ==
  /\ up[i].pc = "create"
  /\ fs' = [fs EXCEPT ![Target(i)] = Whole(Empty)]
  /\ up' = [up EXCEPT ![i].pc = "write1"]
  /\ UNCHANGED <<fs0, phase, stack, cur, converted, convFail, thumbCount,
                 thumbFail, thumbSkip, ct, catalog, resp, lastw, dirs, vres, dim, flat>>

\* img.save_with_format: the buffered writer flushes the encoded image at
\* this request's own file offset, chunk by chunk
SaveWrite(i) ==
  /\ up[i].pc \in {"write1", "write2"}
  /\ LET k == IF up[i].pc = "write1" THEN 1 ELSE 2 IN
       /\ fs' = [fs EXCEPT ![Target(i)][k] = up[i].img]
       /\ up' = [up EXCEPT ![i].pc = IF k = 1 THEN "write2" ELSE "thumb"]
  /\ lastw' = [lastw EXCEPT ![Target(i)] = i]
  /\ UNCHANGED <<fs0, phase, stack, cur, converted, convFail, thumbCount,
                 thumbFail, thumbSkip, ct, catalog, resp, dirs, vres, dim, flat>>

\* (variant: the handler also pushes the new path to its category's vector)
UploadThumbIndexes(i) ==
  /\ up[i].pc = "thumb"
  /\ LET r == CreateThumbnail(Target(i), fs) IN
       /\ fs' = r.files /\ ct' = r.call
       /\ up' = [up EXCEPT ![i].pc = "done",
                           ![i].status = IF r.call.ok THEN "ok" ELSE "thumb_failed"]
  /\ catalog' = IF up[i].cat = "pc" THEN <<Append(pc_images, Target(i)), mp_images>>
                ELSE <<pc_images, Append(mp_images, Target(i))>>
  /\ UNCHANGED <<fs0, phase, stack, cur, converted, convFail, thumbCount,
                 thumbFail, thumbSkip, resp, lastw, dirs, vres, dim, flat>>

\* (variant: a failed thumbnail removes the image and is answered as a
\* failed save)
UploadThumbRollsBack(i) ==
  /\ up[i].pc = "thumb"
  /\ LET r == CreateThumbnail(Target(i), fs) IN
       /\ fs' = IF r.call.ok THEN r.files ELSE [r.files EXCEPT ![Target(i)] = Absent]
       /\ ct' = r.call
       /\ up' = [up EXCEPT ![i].pc = "done",
                           ![i].status = IF r.call.ok THEN "ok" ELSE "save_failed"]
  /\ UNCHANGED <<fs0, phase, stack, cur, converted, convFail, thumbCount,
                 thumbFail, thumbSkip, catalog, resp, lastw, dirs, vres, dim, flat>>

\* create_thumbnail(Path::new(&new_filepath), 200, 200, &image_folder), then
\* the response
UploadThumb(i) ==
  /\ up[i].pc = "thumb"
  /\ LET r == CreateThumbnail(Target(i), fs) IN
       /\ fs' = r.files /\ ct' = r.call
       /\ up' = [up EXCEPT ![i].pc = "done",
                           ![i].status = IF r.call.ok THEN "ok" ELSE "thumb_failed"]
  /\ UNCHANGED <<fs0, phase, stack, cur, converted, convFail, thumbCount,
                 thumbFail, thumbSkip, catalog, resp, lastw, dirs, vres, dim, flat>>


\* ------------------------------------------------------------- runs
UploadPaths == {NewFilepath(c, n) : c \in UploadFolders, n \in OrigNames}
\* the places of the files a tree can start with, and the image each holds
\* when it is not corrupt
IngestSlots ==
  << <<PC, <<"a", "jpg">>>>, <<PC, <<"a", "png">>>>, <<PC, <<"a", "webp">>>>,
     <<PC, <<"b", "jpg">>>>, <<PC, <<"b", "webp">>>>,
     <<MP, <<"a", "jpg">>>>, <<MP, <<"a", "webp">>>>,
     <<PCSUB, <<"a", "jpg">>>>, <<PCSUB, <<"a", "webp">>>>,
     <<TH, <<"a", "jpg">>>>, <<TH, <<"a", "webp">>>>,
     <<THPC, <<"a", "webp">>>> >>
SeedSlots ==
  << <<PC, <<Md5Hex("a.png"), "webp">>>>, <<MP, <<Md5Hex("a.png"), "webp">>>>,
     <<TH, <<Md5Hex("a.png"), "webp">>>>, <<PC, <<"a", "jpg">>>> >>
MainSlots ==
  << <<PC, <<"a", "jpg">>>>, <<MP, <<"a", "webp">>>>, <<PCSUB, <<"a", "jpg">>>>,
     <<EXTRA, <<"a", "jpg">>>> >>
SlotBase == 10
\* the tree with the files of slots `chosen`, those of `bad` corrupt
Tree(slots, chosen, bad) ==
  [p \in Paths |->
     IF \E i \in chosen : slots[i] = p
       THEN LET i == CHOOSE j \in chosen : slots[j] = p
            IN  IF i \in bad THEN Whole(Corrupt) ELSE Whole(SlotBase + i)
       ELSE Absent]
Trees(slots, max) ==
  UNION {{Tree(slots, chosen, bad) : bad \in SUBSET chosen} :
           chosen \in {c \in SUBSET DOMAIN slots : Cardinality(c) <= max}}

\* the directories of a valid layout, with one directory below a category
\* and one below thumbnails
LayoutDirs == {ROOT, PC, MP, TH, PCSUB, THPC}

\* main() after validate_folder succeeded, about to call
\* convert_images_to_webp(&config.image_folder)
Start(trees) ==
  /\ dirs = LayoutDirs /\ vres = "ok" /\ dim = NoDim /\ flat = <<>>
  /\ fs0 \in trees
  /\ fs = fs0
  /\ phase = "convert"
  /\ stack = <<[dir |-> ROOT,
                todo |-> {FileEntry(p) : p \in {q \in Paths : DirOf(q) = ROOT
                                                  /\ fs0[q] # Absent}}
                           \cup {DirEntry(c) : c \in Children(ROOT)}]>>
  /\ cur = NoPath
  /\ converted = 0 /\ convFail = 0
  /\ thumbCount = 0 /\ thumbFail = 0 /\ thumbSkip = 0
  /\ ct = NoCall
  /\ catalog = <<(<<>>), (<<>>)>>
  /\ resp = NoResp
  /\ up = [i \in Uploads |-> Idle]
  /\ lastw = [p \in UploadPaths |-> 0]

\* ------------------------------------------------------------- main: the image folder
\* (variant: only the subfolders pc and mp are asked for)
validate_two_subfolders(ds) ==
  IF ROOT \notin ds THEN "missing_root"
  ELSE IF PC \notin ds \/ MP \notin ds THEN "invalid_layout"
  ELSE "ok"
\* validate_folder(folder) on the directories ds
validate_folder(ds) ==
  IF ROOT \notin ds THEN "missing_root"
  ELSE IF PC \notin ds \/ MP \notin ds \/ TH \notin ds THEN "invalid_layout"
  ELSE "ok"
\* create_folder_structure(folder) on the directories ds
create_folder_structure(ds) == ds \cup {ROOT, PC, MP, TH}
\* the walk convert_images_to_webp(&config.image_folder) starts with
EnterConvert(ds) ==
  <<[dir |-> ROOT,
     todo |-> {FileEntry(p) : p \in {q \in Paths : DirOf(q) = ROOT
                                       /\ fs[q] # Absent}}
                \cup {DirEntry(c) : c \in {e \in ds : Len(e) = 1}}]>>

\* match validate_folder(&config.image_folder)
Validate ==
  /\ phase = "validate"
  /\ vres' = validate_folder(dirs)
  /\ IF validate_folder(dirs) = "ok"
       THEN phase' = "convert" /\ stack' = EnterConvert(dirs)
       ELSE phase' = "ask" /\ stack' = stack
  /\ UNCHANGED <<fs, fs0, cur, converted, convFail, thumbCount, thumbFail,
                 thumbSkip, ct, catalog, resp, up, lastw, dirs, dim, flat>>

\* the operator answers "y": create_folder_structure, then on to the
\* conversion
AnswerYes ==
  /\ phase = "ask"
  /\ dirs' = create_folder_structure(dirs)
  /\ phase' = "convert" /\ stack' = EnterConvert(create_folder_structure(dirs))
  /\ UNCHANGED <<fs, fs0, cur, converted, convFail, thumbCount, thumbFail,
                 thumbSkip, ct, catalog, resp, up, lastw, vres, dim, flat>>

\* any other answer: main returns "Image folder invalid."
AnswerNo ==
  /\ phase = "ask"
  /\ phase' = "exit"
  /\ UNCHANGED <<fs, fs0, stack, cur, converted, convFail, thumbCount, thumbFail,
                 thumbSkip, ct, catalog, resp, up, lastw, dirs, vres, dim, flat>>

Ingest ==
  \/ ConvertVisit \/ ConvertRemove \/ ConvertReturn
  \/ ThumbsVisit \/ ThumbsReturn
  \/ IndexImages
Queries == get_image \/ get_list \/ list_images \/ get_thumbnail
QueriesMain == main_index_images \/ main_get_list
Upload ==
  \E i \in Uploads : UploadStart(i) \/ SaveCreate(i) \/ SaveWrite(i) \/ UploadThumb(i)

\* a run that serves what it ingested, from any tree of up to MaxFiles files
Init == Start(Trees(IngestSlots, MaxFiles))
Next == Ingest \/ Queries \/ QueriesMain
Spec == Init /\ [][Next]_vars

\* the startup ingestion alone, from the same trees
NextIngest == Ingest
SpecIngest == Init /\ [][NextIngest]_vars

\* a run that receives uploads, from a small tree.  The queries change
\* nothing but resp, whatever the uploads are doing; their responses in these
\* runs are GetImageResp, GetListResp, ListImagesResps and GetThumbnailResp
\* of the state reached
InitUpload == Start(Trees(SeedSlots, MaxSeedFiles))
NextUpload == Ingest \/ Upload
SpecUpload == InitUpload /\ [][NextUpload]_vars

\* a run of main() from its call of validate_folder, on any set of
\* directories (a directory exists only inside an existing one) holding a
\* small tree
DirSets == {ds \in SUBSET Dirs : \A d \in ds : d # ROOT => Rest1(d) \in ds}
InitMain ==
  /\ dirs \in DirSets /\ vres = "none" /\ dim = NoDim /\ flat = <<>>
  /\ fs0 \in {t \in Trees(MainSlots, MaxSeedFiles) :
               \A p \in Paths : t[p] # Absent => DirOf(p) \in dirs}
  /\ fs = fs0
  /\ phase = "validate" /\ stack = <<>>
  /\ cur = NoPath
  /\ converted = 0 /\ convFail = 0
  /\ thumbCount = 0 /\ thumbFail = 0 /\ thumbSkip = 0
  /\ ct = NoCall
  /\ catalog = <<(<<>>), (<<>>)>>
  /\ resp = NoResp
  /\ up = [i \in Uploads |-> Idle]
  /\ lastw = [p \in UploadPaths |-> 0]
NextMain == Validate \/ AnswerYes \/ AnswerNo \/ Ingest
SpecMain == InitMain /\ [][NextMain]_vars

\* calls of create_thumbnail's dimension arithmetic, for every image size
\* and every pair of bounds up to MaxDim and MaxBound
InitDims ==
  /\ dim \in [pc : {"opened"}, w : 1..MaxDim, h : 1..MaxDim,
               max_width : 1..MaxBound, max_height : 1..MaxBound,
               new_width : {0}, new_height : {0}]
  /\ phase = "unit"
  /\ dirs = LayoutDirs /\ vres = "ok" /\ flat = <<>>
  /\ fs0 = [p \in Paths |-> Absent] /\ fs = fs0
  /\ stack = <<>> /\ cur = NoPath
  /\ converted = 0 /\ convFail = 0
  /\ thumbCount = 0 /\ thumbFail = 0 /\ thumbSkip = 0
  /\ ct = NoCall
  /\ catalog = <<(<<>>), (<<>>)>>
  /\ resp = NoResp
  /\ up = [i \in Uploads |-> Idle]
  /\ lastw = [p \in UploadPaths |-> 0]
NextDims == ThumbnailDimensions
SpecDims == InitDims /\ [][NextDims]_vars

\* ============================================================= claims
Range(seq) == {seq[i] : i \in DOMAIN seq}
CatalogPaths == Range(pc_images) \cup Range(mp_images)
Present(files) == {p \in Paths : files[p] # Absent}
Ingested == phase \in {"index", "serve"}

\* ------------------------------------------------------------- C1
\* C1: a create_thumbnail call on an image whose thumbnail file already
\* exists returns success and has not read or decoded the source image
C1_CacheHitSkipsSource ==
  (ct # NoCall /\ ct.existed) => (ct.ok /\ ~ct.decoded)

\* ------------------------------------------------------------- C2
\* C2: no step of convert_images_to_webp, started on the image folder,
\* creates, changes or deletes a file located under <root>/thumbnails
C2_NormalizerSkipsThumbnails ==
  [][phase = "convert" => \A p \in Paths : UnderThumbnails(p) => fs'[p] = fs[p]]_vars

\* ------------------------------------------------------------- C3
\* C3: every path index_images put in the Catalog is an existing .webp file
\* that is not located inside the thumbnails subtree
C3_CatalogInvariant ==
  phase = "serve" =>
    \A p \in CatalogPaths : Exists(p) /\ ExtOf(p) = "webp" /\ ~UnderThumbnails(p)

\* ------------------------------------------------------------- C4
\* C4: after index_images the paths of the Catalog's sequences are exactly
\* the .webp files found at any depth under the category subtrees pc and mp
C4_CatalogComplete ==
  phase = "serve" =>
    CatalogPaths = {p \in Present(fs) : ExtOf(p) = "webp" /\ UnderCategory(p)}

\* ------------------------------------------------------------- C5
\* the source images the run started from, and the .webp files
\* create_thumbnails is to visit (the files outside the thumbnails subtree)
Sources0 == {p \in Present(fs0) : ExtOf(p) \in SrcExts}
Webps == {p \in Present(fs) : ExtOf(p) = "webp" /\ ~UnderThumbnails(p)}
Valid(files, S) == {p \in S : Decode(files[p]) # 0}
DistinctNames(S) == \A p, q \in S : NameOf(p) = NameOf(q) => p = q
NoThumbnailYet == \A p \in Present(fs0) : ~UnderThumbnails(p)

NothingFound ==
  \/ /\ resp.h = "get_image"
     /\ \A p \in CatalogPaths : NameOf(p) # resp.name
  \/ /\ resp.h \in {"get_list", "list_images"}
     /\ \/ resp.arg \notin {"pc", "mp", "all"}
        \/ resp.arg = "pc" /\ pc_images = <<>>
        \/ resp.arg = "mp" /\ mp_images = <<>>
        \/ resp.arg = "all" /\ CatalogPaths = {}
  \/ /\ resp.h = "get_thumbnail"
     /\ ~Exists(<<TH, resp.name>>)

\* C6: a request to get_image, get_list, list_images or get_thumbnail for an
\* unknown category, an empty category or a file name without a file is
\* answered not-found, never by a panic
C6_NotFoundNeverPanics ==
  (phase = "serve" /\ NothingFound) => resp.status = "not_found"

\* ------------------------------------------------------------- C10
\* the Catalog sequence of a category; of "all", both sequences
CategoryPaths(cat) ==
  CASE cat = "pc" -> Range(pc_images)
    [] cat = "mp" -> Range(mp_images)
    [] cat = "all" -> Range(pc_images) \cup Range(mp_images)
    [] OTHER -> {}

ImageResps ==
  {GetImageResp(n) : n \in ReqNames}
    \cup UNION {ListImagesResps(f) : f \in ReqFolders}
\* the names get_list can give in this state
ListedNames == UNION {Range(GetListResp(f).list) : f \in ReqFolders}
\* the upload request wrote the image file and has answered
Saved(i) == up[i].pc = "done" /\ up[i].status \in {"ok", "thumb_failed"}
WrittenByUpload(p) == \E i \in Uploads : Saved(i) /\ Target(i) = p
\* no file an upload of this run saved is returned
NoUploadServed ==
  \A r \in ImageResps : r.status = "ok" => ~WrittenByUpload(r.path)
\* what is returned or listed is in the Catalog
OnlyCatalogServed ==
  /\ \A r \in ImageResps : r.status = "ok" => r.path \in CatalogPaths
  /\ ListedNames = {NameOf(p) : p \in CatalogPaths}

\* C7 as claimed: no step of a serving run changes the Catalog, and no image
\* uploaded during the run is returned by get_image or list_images
C7_Original ==
  [][phase = "serve" => (catalog' = catalog /\ NoUploadServed')]_vars

\* C7 as amended: no step of a serving run changes the Catalog, and
\* get_image, list_images and get_list return only paths of that Catalog (so
\* an upload to a path outside it is not returned; one that overwrites a
\* file of the Catalog is)
C7_CatalogFrozen ==
  [][phase = "serve" => (catalog' = catalog /\ OnlyCatalogServed')]_vars

\* an upload has saved its image at a path outside the Catalog, and
\* get_image answers not-found for its name
C7_Witness ==
  \E i \in Uploads :
    /\ Saved(i) /\ up[i].status = "ok" /\ Exists(Target(i))
    /\ Target(i) \notin CatalogPaths
    /\ GetImageResp(NewFilename(up[i].name)).status = "not_found"

\* ------------------------------------------------------------- C8
\* C8: after two uploads of "a.png" under pc, one after the other and with
\* different bytes, get_image of the derived name returns the second
\* upload's image
C8_LastWriteWins ==
  ( /\ Saved(1) /\ Saved(2) /\ up[2].solo
    /\ \A k \in Uploads \ {1, 2} : up[k].pc = "idle"
    /\ up[1].name = "a.png" /\ up[2].name = "a.png"
    /\ up[1].cat = "pc" /\ up[2].cat = "pc"
    /\ up[1].img # up[2].img )
  => LET r == GetImageResp(NewFilename("a.png"))
     IN  r.status = "ok" /\ r.body = Whole(up[2].img)

\* ------------------------------------------------------------- C9
\* C9: two uploads of one file name under one category have the same target
\* path, and once every upload has finished the file at that path holds the
\* image of the upload that wrote to it last
C9_ConcurrentLastWriterWins ==
  \A i, j \in Uploads :
    (i # j /\ Saved(i) /\ Saved(j)
       /\ up[i].cat = up[j].cat /\ up[i].name = up[j].name)
    => /\ Target(i) = Target(j)
       /\ (\A k \in Uploads : up[k].pc \in {"idle", "done"})
            => fs[Target(i)] = Whole(up[lastw[Target(i)]].img)

\* ------------------------------------------------------------- C11
\* C11: every upload_image request that fails is answered with a structured
\* error (bad request for a payload without file name, server-processing
\* error for a codec or save failure, partial success for a failed
\* thumbnail); none, an undecodable payload included, ends in a panic
C11_UploadFailuresStructured ==
  \A i \in Uploads :
    up[i].pc = "done" =>
      up[i].status \in {"ok", "unauthorized", "bad_request", "save_failed",
                        "thumb_failed"}

\* ------------------------------------------------------------- C12
\* C12: when an upload has saved its image and create_thumbnail then fails,
\* the request is answered with the partial-success error (not success, not
\* the save-failure error) and the saved image file stays on disk: the step
\* leaves it as it is, and no later step removes it
C12_PartialSuccessKeepsImage ==
  [][\A i \in Uploads :
       /\ (up[i].pc = "thumb" /\ up'[i].pc = "done"
             /\ ~CreateThumbnail(Target(i), fs).call.ok)
            => /\ up'[i].status = "thumb_failed"
               /\ fs' = fs /\ fs[Target(i)] # Absent
       /\ (up[i].pc = "done" /\ up[i].status = "thumb_failed")
            => fs'[Target(i)] # Absent]_vars

\* an upload saved its image, failed to create the thumbnail and was
\* answered with the partial-success error; its image file is on disk and
\* no thumbnail of its name is
C12_Witness ==
  \E i \in Uploads :
    /\ up[i].pc = "done" /\ up[i].status = "thumb_failed"
    /\ up[i].cat \in {"pc", "mp"}
    /\ Exists(Target(i)) /\ ~Exists(ThumbPath(Target(i)))

\* ------------------------------------------------------------- C13
\* what a category name selects by exact match: of "pc" and "mp" the
\* Catalog sequence of that category (in the one vector of main.rs, the
\* paths below that category's directory), of "all" everything, of any
\* other name nothing
ExactSelection(name) ==
  IF phase = "serve_main"
    THEN CASE name = "pc" -> {p \in Range(flat) : IsPrefix(PC, DirOf(p))}
           [] name = "mp" -> {p \in Range(flat) : IsPrefix(MP, DirOf(p))}
           [] name = "all" -> Range(flat)
           [] OTHER -> {}
    ELSE CASE name = "pc" -> Range(pc_images)
           [] name = "mp" -> Range(mp_images)
           [] name = "all" -> Range(pc_images) \cup Range(mp_images)
           [] OTHER -> {}

\* C13: get_list and list_images select by exact match against a category
\* name: "pc" gives the pc files, "mp" the mp files, "all" both, and any
\* other name (a substring or superstring of a category name, a string that
\* occurs elsewhere in the paths) gives not-found
C13_ExactCategory ==
  (phase \in {"serve", "serve_main"} /\ resp.h \in {"get_list", "list_images"}) =>
    LET sel == ExactSelection(resp.arg) IN
      /\ resp.status \in {"ok", "not_found"}
      /\ resp.status = "not_found" <=> sel = {}
      /\ (resp.h = "get_list" /\ resp.status = "ok")
           => Range(resp.list) = {NameOf(p) : p \in sel}
      /\ (resp.h = "list_images" /\ resp.status = "ok") => resp.path \in sel

\* ------------------------------------------------------------- C14
\* the image files of the category subtrees, and the files of the
\* thumbnails subtree
CategoryImages == {p \in Present(fs) : UnderCategory(p) /\ ExtOf(p) = "webp"}
Thumbnails == {t \in Present(fs) : UnderThumbnails(t)}

\* C14: starting from an empty thumbnails subtree, after the ingestion
\* every file of the thumbnails subtree has the base name of exactly one
\* image file of the category subtrees and is the thumbnail of that image,
\* and every image has at most one thumbnail
C14_ThumbnailOneToOne ==
  (Ingested /\ NoThumbnailYet) =>
    /\ \A t \in Thumbnails :
         \E p \in CategoryImages :
           /\ NameOf(p) = NameOf(t)
           /\ \A q \in CategoryImages : NameOf(q) = NameOf(t) => q = p
           /\ fs[t] = Whole(Resize(Decode(fs[p])))
    /\ \A p \in CategoryImages :
         Cardinality({t \in Thumbnails : NameOf(t) = NameOf(p)}) <= 1

\* ------------------------------------------------------------- C15
\* C15: validate_folder returns the missing-root error when the root does
\* not exist, the invalid-layout error when the root exists and one of pc,
\* mp, thumbnails does not, Ok exactly when all four exist; it changes no
\* file and no directory
C15_ValidateFolder ==
  [][phase = "validate" =>
       /\ vres' = "missing_root" <=> ROOT \notin dirs
       /\ vres' = "invalid_layout" <=> (ROOT \in dirs /\ ~({PC, MP, TH} \subseteq dirs))
       /\ vres' = "ok" <=> {ROOT, PC, MP, TH} \subseteq dirs
       /\ fs' = fs /\ dirs' = dirs]_vars

\* validate_folder has returned the invalid-layout error for a root that
\* holds pc and mp and no thumbnails
C15_Witness ==
  /\ phase = "ask" /\ vres = "invalid_layout"
  /\ {ROOT, PC, MP} \subseteq dirs /\ TH \notin dirs

\* ------------------------------------------------------------- C16
\* C16: for every image of w x h and every pair of bounds, the dimensions
\* create_thumbnail computes do not exceed the bounds, and are the bound on
\* one axis and the truncated proportional length on the other
C16_ThumbnailDimensions ==
  dim.pc = "resize" =>
    /\ dim.new_width <= dim.max_width
    /\ dim.new_height <= dim.max_height
    /\ dim.w > dim.h =>
         /\ dim.new_width = dim.max_width
         /\ dim.new_height * dim.w <= dim.max_width * dim.h
         /\ dim.max_width * dim.h < (dim.new_height + 1) * dim.w
    /\ dim.w <= dim.h =>
         /\ dim.new_height = dim.max_height
         /\ dim.new_width * dim.h <= dim.max_height * dim.w
         /\ dim.max_height * dim.w < (dim.new_width + 1) * dim.h

\* ------------------------------------------------------------- C17
\* the source files convert_images_to_webp has removed
Removed == {p \in Sources0 : fs[p] = Absent}

C18_NoImageLost ==
  phase # "convert" =>
    \A p \in Present(fs0) :
      Decode(fs0[p]) # 0 => \E q \in Present(fs) : Decode(fs[q]) = Decode(fs0[p])

\* ------------------------------------------------------------- C19
\* C19: after two successful uploads of one file name under one category,
\* one after the other, the thumbnail of the derived name is the thumbnail
\* of the image the second upload stored
C19_ThumbnailFollowsImage ==
  ( /\ Saved(1) /\ Saved(2) /\ up[2].solo
    /\ up[1].status = "ok" /\ up[2].status = "ok"
    /\ \A k \in Uploads \ {1, 2} : up[k].pc = "idle"
    /\ up[1].name = up[2].name /\ up[1].cat = up[2].cat
    /\ up[1].cat \in {"pc", "mp"}
    /\ NoThumbnailYet )
  => /\ fs[Target(2)] = Whole(up[2].img)
     /\ fs[ThumbPath(Target(2))] = Whole(Resize(up[2].img))

\* ------------------------------------------------------------- C20
\* C20: upload_image writes image files into pc and mp only: whatever the
\* category selector, no upload writes an image into the thumbnails subtree
\* or creates a third subtree of the root
C20_UploadsKeepLayout ==
  phase = "serve" =>
    /\ \A p \in UploadPaths : lastw[p] # 0 => UnderCategory(p)
    /\ {d \in dirs : Len(d) = 1} = {PC, MP, TH}

\* ------------------------------------------------------------- C21
\* the step in which request i is answered Unauthorized
RejectedUnauthorized(i) ==
  up[i].pc = "idle" /\ up'[i].pc = "done" /\ up'[i].status = "unauthorized"

\* C21: an upload_image request whose Authorization header is missing or is
\* not 'Bearer <token>' is answered Unauthorized before any field of the
\* payload is read, and its step leaves the filesystem as it was: no
\* directory, no image file and no thumbnail is created or modified,
\* whatever the folder and the payload of the request and whatever other
\* uploads are in flight
C21_UnauthorizedChangesNothing ==
  [][\A i \in Uploads :
       RejectedUnauthorized(i) =>
         /\ fs' = fs /\ dirs' = dirs /\ lastw' = lastw
         /\ ct' = ct /\ catalog' = catalog
         /\ up'[i].name = "" /\ up'[i].img = 0]_vars

\* an unauthorized request that arrived after an authorized one has been
\* answered while the earlier one is between the creation of its file and
\* its last write
C21_Witness ==
  \E i, j \in Uploads :
    /\ j < i
    /\ up[i].pc = "done" /\ up[i].status = "unauthorized"
    /\ up[j].pc \in {"write1", "write2"}

====
